---- MODULE Spec2Model ----
(***************************************************************************)
(* Model of the query tools of the Vertica plugin:                         *)
(*   tools/execute_query.py       ExecuteQueryTool                         *)
(*   tools/stream_query.py        StreamQueryTool                          *)
(*   tools/get_table_structure.py GetTableStructureTool                    *)
(* One behaviour is one invocation of one tool.  Text is modelled as a     *)
(* sequence of one-character strings so that strip(), upper(), lower(),    *)
(* startswith(), the `in` substring test, int() and the f-string that      *)
(* builds the paginated statement are computed character by character.     *)
(***************************************************************************)
EXTENDS Integers, Sequences, FiniteSets, TLC

VARIABLES
    pc,               \* position of the invocation: idle, connect, run, fetching, done
    tool,             \* which tool was invoked
    tool_parameters,  \* the parameter mapping given by the caller
    credentials,      \* self.runtime.credentials
    config,           \* the result of _build_config
    sql,              \* the trimmed statement
    table_name,       \* getTableStructure: the trimmed table name
    schema_name,      \* getTableStructure: the trimmed schema name
    batch_size,       \* streamQuery: the clamped batch size
    max_rows,         \* streamQuery: None or the clamped row limit
    connection,       \* None, "open" or "closed"
    connects,         \* calls of vertica_python.connect
    connect_args,     \* the keyword arguments of the last call of connect, or None
    closes,           \* calls of connection.close
    executed,         \* the statements handed to cursor.execute, in order
    offset,           \* StreamState
    batch_number,
    total_fetched,
    table_rows,       \* the database: number of rows the base statement denotes
    table_exists,     \* the database: whether v_catalog.tables has the row
    out,              \* the messages yielded to the caller, in order
    raised,           \* the exception raised inside the try block, or None
    failed_round,     \* streamQuery: the round whose execute/fetch raised, or 0
    propagated        \* the exception that escaped _invoke, or None

vars == <<pc, tool, tool_parameters, credentials, config, sql, table_name, schema_name,
          batch_size, max_rows, connection, connects, connect_args, closes, executed,
          offset,
          batch_number, total_fetched, table_rows, table_exists, out, raised,
          failed_round, propagated>>

None == "None"

-----------------------------------------------------------------------------
(* Bounds of the model                                                     *)

MaxBatchSize == 2      \* small batch_size parameters are 0..MaxBatchSize
MaxMaxRows == 3        \* small max_rows parameters are 0..MaxMaxRows
MaxTableRows == 4      \* small tables hold 0..MaxTableRows rows
MaxBatches == 6        \* a stream is followed for at most MaxBatches batches

-----------------------------------------------------------------------------
(* Python str operations, on sequences of characters                       *)

LowerLetters == <<"a","b","c","d","e","f","g","h","i","j","k","l","m",
                  "n","o","p","q","r","s","t","u","v","w","x","y","z">>
UpperLetters == <<"A","B","C","D","E","F","G","H","I","J","K","L","M",
                  "N","O","P","Q","R","S","T","U","V","W","X","Y","Z">>
DigitChars == <<"0","1","2","3","4","5","6","7","8","9">>
Whitespace == {" ", "\t", "\n", "\r"}

IndexIn(c, letters) == CHOOSE i \in 1..Len(letters) : letters[i] = c

\* str.upper() and str.lower() of one character, as tables
UpperOf == [c \in {LowerLetters[i] : i \in 1..26} |-> UpperLetters[IndexIn(c, LowerLetters)]]
LowerOf == [c \in {UpperLetters[i] : i \in 1..26} |-> LowerLetters[IndexIn(c, UpperLetters)]]
DigitOf == [c \in {DigitChars[i] : i \in 1..10} |-> IndexIn(c, DigitChars) - 1]

UpperChar(c) == IF c \in DOMAIN UpperOf THEN UpperOf[c] ELSE c
LowerChar(c) == IF c \in DOMAIN LowerOf THEN LowerOf[c] ELSE c

Upper(s) == [i \in 1..Len(s) |-> UpperChar(s[i])]
Lower(s) == [i \in 1..Len(s) |-> LowerChar(s[i])]

RECURSIVE LStrip(_)
LStrip(s) == IF s # <<>> /\ Head(s) \in Whitespace THEN LStrip(Tail(s)) ELSE s

RECURSIVE RStrip(_)
RStrip(s) == IF s # <<>> /\ s[Len(s)] \in Whitespace
             THEN RStrip(SubSeq(s, 1, Len(s) - 1)) ELSE s

Strip(s) == RStrip(LStrip(s))

StartsWith(s, p) == Len(s) >= Len(p) /\ SubSeq(s, 1, Len(p)) = p

Contains(s, p) == \E i \in 1..(Len(s) - Len(p) + 1) : SubSeq(s, i, i + Len(p) - 1) = p

RECURSIVE ToStr(_)
ToStr(s) == IF s = <<>> THEN "" ELSE Head(s) \o ToStr(Tail(s))

RECURSIVE IntToStr(_)
IntToStr(n) == IF n < 10 THEN <<DigitChars[n + 1]>>
               ELSE IntToStr(n \div 10) \o <<DigitChars[(n % 10) + 1]>>

IsDigits(s) == s # <<>> /\ \A i \in 1..Len(s) : s[i] \in DOMAIN DigitOf

RECURSIVE DigitsValue(_)
DigitsValue(s) == IF s = <<>> THEN 0
                  ELSE 10 * DigitsValue(SubSeq(s, 1, Len(s) - 1))
                       + DigitOf[s[Len(s)]]

ValueError(msg) == [type |-> "ValueError", msg |-> msg]

\* int(x) of a text: surrounding whitespace is ignored, decimal digits are read,
\* anything else raises ValueError
StrToInt(s) ==
    IF IsDigits(Strip(s)) THEN [val |-> DigitsValue(Strip(s))]
    ELSE [exc |-> ValueError("invalid literal for int() with base 10: '" \o ToStr(s) \o "'")]

\* int(x) of a parameter value, which is a number [int |-> n] or a text [str |-> s]
PyInt(v) == IF "int" \in DOMAIN v THEN [val |-> v.int] ELSE StrToInt(v.str)

Raises(r) == "exc" \in DOMAIN r

\* dict.get(key, default)
Get(d, k, default) == IF k \in DOMAIN d THEN d[k] ELSE default

Min(a, b) == IF a < b THEN a ELSE b
Max(a, b) == IF a > b THEN a ELSE b

-----------------------------------------------------------------------------
(* Python values that may be None                                          *)

PyNone == [none |-> TRUE]
PyStr(s) == [str |-> s]
PyNum(n) == [int |-> n]
IsNone(v) == "none" \in DOMAIN v

-----------------------------------------------------------------------------
(* Keywords and literals of the source                                     *)

kwSELECT == <<"S","E","L","E","C","T">>
kwSHOW == <<"S","H","O","W">>
kwDESCRIBE == <<"D","E","S","C","R","I","B","E">>
kwEXPLAIN == <<"E","X","P","L","A","I","N">>
kwWITH == <<"W","I","T","H">>
kwLIMIT == <<"L","I","M","I","T">>
kwOFFSET == <<"O","F","F","S","E","T">>
txtTrue == <<"t","r","u","e">>
txtFalse == <<"f","a","l","s","e">>
txtPublic == <<"p","u","b","l","i","c">>

\* execute_query.py:73
readonly_prefixes == <<kwSELECT, kwSHOW, kwDESCRIBE, kwEXPLAIN, kwWITH>>

ReadonlyMessage ==
    "Only readonly queries are allowed (readonly mode is enabled). "
    \o "Query must start with: SELECT, SHOW, DESCRIBE, EXPLAIN, WITH. "
    \o "To allow all queries, set vertica_readonly_mode to 'false'."

StreamableMessage ==
    "Query should not contain LIMIT or OFFSET clauses when using streamQuery. "
    \o "Use the batch_size and max_rows parameters instead."

SqlRequiredText == "Error: SQL query is required"
TableRequiredText == "Error: table_name is required"

-----------------------------------------------------------------------------
(* _build_config: the three tools' copies                                  *)

\* credentials.get(key): the text, or None
GetOrNone(d, k) == IF k \in DOMAIN d THEN PyStr(d[k]) ELSE PyNone

\* int(credentials.get(key, default)), the default being a number
IntOr(d, k, default) == IF k \in DOMAIN d THEN StrToInt(d[k]) ELSE [val |-> default]

\* credentials.get(key, default).lower() == "true"
FlagOr(d, k, default) == Lower(Get(d, k, default)) = txtTrue

ExecuteQueryTool_build_config(creds) ==
    LET port == IntOr(creds, "vertica_port", 5433)
        limit == IntOr(creds, "vertica_connection_limit", 10)
        timeout == IntOr(creds, "vertica_query_timeout", 60000)
    IN  IF Raises(port) THEN port
        ELSE IF Raises(limit) THEN limit
        ELSE IF Raises(timeout) THEN timeout
        ELSE [val |-> [host |-> GetOrNone(creds, "vertica_host"),
                       port |-> port.val,
                       database |-> GetOrNone(creds, "vertica_database"),
                       user |-> GetOrNone(creds, "vertica_user"),
                       password |-> Get(creds, "vertica_password", <<>>),
                       readonly_mode |-> FlagOr(creds, "vertica_readonly_mode", txtTrue),
                       connection_limit |-> limit.val,
                       query_timeout |-> timeout.val,
                       ssl |-> FlagOr(creds, "vertica_ssl", txtFalse),
                       default_schema |-> Get(creds, "vertica_default_schema", txtPublic)]]

StreamQueryTool_build_config(creds) ==
    LET port == IntOr(creds, "vertica_port", 5433)
        timeout == IntOr(creds, "vertica_query_timeout", 60000)
    IN  IF Raises(port) THEN port
        ELSE IF Raises(timeout) THEN timeout
        ELSE [val |-> [host |-> GetOrNone(creds, "vertica_host"),
                       port |-> port.val,
                       database |-> GetOrNone(creds, "vertica_database"),
                       user |-> GetOrNone(creds, "vertica_user"),
                       password |-> Get(creds, "vertica_password", <<>>),
                       readonly_mode |-> FlagOr(creds, "vertica_readonly_mode", txtTrue),
                       query_timeout |-> timeout.val,
                       ssl |-> FlagOr(creds, "vertica_ssl", txtFalse)]]

GetTableStructureTool_build_config(creds) ==
    LET port == IntOr(creds, "vertica_port", 5433)
        timeout == IntOr(creds, "vertica_query_timeout", 60000)
    IN  IF Raises(port) THEN port
        ELSE IF Raises(timeout) THEN timeout
        ELSE [val |-> [host |-> GetOrNone(creds, "vertica_host"),
                       port |-> port.val,
                       database |-> GetOrNone(creds, "vertica_database"),
                       user |-> GetOrNone(creds, "vertica_user"),
                       password |-> Get(creds, "vertica_password", <<>>),
                       query_timeout |-> timeout.val,
                       ssl |-> FlagOr(creds, "vertica_ssl", txtFalse)]]

\* the keyword arguments handed to vertica_python.connect
conn_params(cfg) ==
    [host |-> cfg.host, port |-> cfg.port, database |-> cfg.database,
     user |-> cfg.user, password |-> cfg.password,
     connection_timeout |-> cfg.query_timeout \div 1000,
     ssl |-> IF cfg.ssl THEN TRUE ELSE FALSE]

-----------------------------------------------------------------------------
(* The guards                                                              *)

\* any(trimmed_sql.startswith(prefix) for prefix in readonly_prefixes)
is_readonly(text) ==
    LET trimmed_sql == Upper(Strip(text))
    IN  \E i \in 1..Len(readonly_prefixes) : StartsWith(trimmed_sql, readonly_prefixes[i])

\* a variant of _validate_readonly_query: the readonly flag read the wrong way
_validate_readonly_query_inverted(text, cfg) ==
    IF cfg.readonly_mode THEN PyNone
    ELSE IF ~is_readonly(text) THEN ValueError(ReadonlyMessage)
    ELSE PyNone

\* ExecuteQueryTool._validate_readonly_query: None, or the exception it raises
_validate_readonly_query(text, cfg) ==
    IF ~cfg.readonly_mode THEN PyNone
    ELSE IF ~is_readonly(text) THEN ValueError(ReadonlyMessage)
    ELSE PyNone

\* StreamQueryTool._validate_query: None, or the exception it raises
_validate_query(text) ==
    LET sql_upper == Upper(text)
    IN  IF Contains(sql_upper, <<" ">> \o kwLIMIT \o <<" ">>)
           \/ Contains(sql_upper, <<" ">> \o kwOFFSET \o <<" ">>)
        THEN ValueError(StreamableMessage)
        ELSE PyNone

-----------------------------------------------------------------------------
(* The database behind the cursor.  The base statement denotes table_rows  *)
(* rows, numbered 1..table_rows in a fixed order; a statement that ends in *)
(* LIMIT <n> OFFSET <m> denotes rows m+1..m+n of them.                     *)

RECURSIVE WordEnd(_, _)
WordEnd(s, i) == IF i > Len(s) \/ s[i] \in Whitespace THEN i ELSE WordEnd(s, i + 1)

\* the whitespace-delimited words of a text
RECURSIVE Tokens(_)
Tokens(s) ==
    LET t == LStrip(s)
    IN  IF t = <<>> THEN <<>>
        ELSE <<SubSeq(t, 1, WordEnd(t, 1) - 1)>> \o Tokens(SubSeq(t, WordEnd(t, 1), Len(t)))

DbPage(stmt) ==
    LET w == Tokens(Upper(stmt))
        k == Len(w)
    IN  IF k >= 4 /\ w[k - 3] = kwLIMIT /\ IsDigits(w[k - 2])
                  /\ w[k - 1] = kwOFFSET /\ IsDigits(w[k])
        THEN [paged |-> TRUE, limit |-> DigitsValue(w[k - 2]), offset |-> DigitsValue(w[k])]
        ELSE [paged |-> FALSE, limit |-> 0, offset |-> 0]

\* cursor.fetchall() after cursor.execute(stmt).  The rows returned are
\* consecutive rows of the table, so the list is kept as the number of its first
\* row and its length: rows first .. first + count - 1
DbRows(stmt, n) ==
    LET page == DbPage(stmt)
    IN  IF page.paged
        THEN [first |-> page.offset + 1, count |-> Max(0, Min(page.limit, n - page.offset))]
        ELSE [first |-> 1, count |-> n]

\* len(rows)
RowCount(rows) == rows.count

\* [desc[0] for desc in cursor.description] if cursor.description else []
DbColumns == <<"id">>

\* what the driver raises from connect, execute or fetchall
ConnectErrors == {[type |-> "ConnectionError", msg |-> "Failed to establish a connection"]}
QueryErrors == {[type |-> "QueryError", msg |-> "Syntax error at or near"],
                [type |-> "ConnectionError", msg |-> "Connection timed out"]}

-----------------------------------------------------------------------------
(* Messages and envelopes                                                  *)

_get_current_timestamp == "utcnow().isoformat()Z"

create_text_message(text) == [type |-> "text", text |-> text]
create_json_message(body) == [type |-> "json", json |-> body]

\* the error_result of ExecuteQueryTool._invoke and StreamQueryTool._invoke
error_result(e, params) ==
    [success |-> FALSE,
     error |-> e.msg,
     query |-> Get(params, "sql", <<>>),
     executed_at |-> _get_current_timestamp]

\* the error_result of GetTableStructureTool._invoke
structure_error_result(e, params) ==
    [success |-> FALSE,
     error |-> e.msg,
     table |-> Get(params, "table_name", <<>>),
     schema |-> Get(params, "schema_name", txtPublic),
     executed_at |-> _get_current_timestamp]

\* a variant of Catches: `except ValueError`
Catches_ValueError_only(e) == e.type = "ValueError"

\* `except Exception`: every exception the model raises derives from Exception
Catches(e) == e.type \in {"ValueError", "ConnectionError", "QueryError"}

\* a variant of finally_close: close() at the end of the try body, not in a finally
finally_close_on_return_only(conn, how) ==
    IF conn # None /\ how = "return" THEN [connection |-> "closed", closes |-> 1]
    ELSE [connection |-> conn, closes |-> 0]

\* `finally: if connection: connection.close()`, on leaving the try block by
\* how \in {"return", "raise"}: the connection afterwards and the close calls made
finally_close(conn, how) ==
    IF conn # None THEN [connection |-> "closed", closes |-> 1]
    ELSE [connection |-> conn, closes |-> 0]

-----------------------------------------------------------------------------
(* ExecuteQueryTool                                                        *)

kwINSERT == <<"I","N","S","E","R","T">>
kwUPDATE == <<"U","P","D","A","T","E">>
kwDELETE == <<"D","E","L","E","T","E">>
kwCREATE == <<"C","R","E","A","T","E">>
kwDROP == <<"D","R","O","P">>
kwALTER == <<"A","L","T","E","R">>

_get_command_type(text) ==
    LET sql_upper == Upper(Strip(text))
    IN  IF StartsWith(sql_upper, kwSELECT) THEN "SELECT"
        ELSE IF StartsWith(sql_upper, kwINSERT) THEN "INSERT"
        ELSE IF StartsWith(sql_upper, kwUPDATE) THEN "UPDATE"
        ELSE IF StartsWith(sql_upper, kwDELETE) THEN "DELETE"
        ELSE IF StartsWith(sql_upper, kwCREATE) THEN "CREATE"
        ELSE IF StartsWith(sql_upper, kwDROP) THEN "DROP"
        ELSE IF StartsWith(sql_upper, kwALTER) THEN "ALTER"
        ELSE IF StartsWith(sql_upper, kwSHOW) THEN "SHOW"
        ELSE IF StartsWith(sql_upper, kwDESCRIBE) THEN "DESCRIBE"
        ELSE IF StartsWith(sql_upper, kwEXPLAIN) THEN "EXPLAIN"
        ELSE "UNKNOWN"

\* the dict returned by ExecuteQueryTool._execute_query
query_result(text, rows, columns) ==
    [rows |-> rows,
     row_count |-> RowCount(rows),
     fields |-> columns,
     command |-> _get_command_type(text)]

ExecuteQueryTool_format_result(result, text) ==
    [success |-> TRUE,
     data |-> result.rows,
     row_count |-> result.row_count,
     fields |-> result.fields,
     command |-> result.command,
     query |-> text,
     executed_at |-> _get_current_timestamp]

-----------------------------------------------------------------------------
(* StreamQueryTool                                                         *)

\* min(max(int(tool_parameters.get("batch_size", 1000)), 1), 10000)
clamp_batch_size(params) ==
    LET n == PyInt(Get(params, "batch_size", PyNum(1000)))
    IN  IF Raises(n) THEN n ELSE [val |-> Min(Max(n.val, 1), 10000)]

\* max_rows = tool_parameters.get("max_rows"); max(int(max_rows), 1) unless None
clamp_max_rows(params) ==
    IF "max_rows" \notin DOMAIN params THEN [val |-> PyNone]
    ELSE LET n == PyInt(params["max_rows"])
         IN  IF Raises(n) THEN n ELSE [val |-> PyNum(Max(n.val, 1))]

\* a variant of limited_sql: batch_size and offset in each other's place
limited_sql_swapped(text, size, off) ==
    text \o <<" ">> \o kwLIMIT \o <<" ">> \o IntToStr(off)
         \o <<" ">> \o kwOFFSET \o <<" ">> \o IntToStr(size)

\* f"{sql} LIMIT {batch_size} OFFSET {offset}"
limited_sql(text, size, off) ==
    text \o <<" ">> \o kwLIMIT \o <<" ">> \o IntToStr(size)
         \o <<" ">> \o kwOFFSET \o <<" ">> \o IntToStr(off)

\* len(rows) == batch_size and (max_rows is None or total_fetched < max_rows)
has_more(nrows, size, limit, total) ==
    nrows = size /\ (IsNone(limit) \/ total < limit.int)

\* a variant of reached_limit: a short batch does not end the loop
reached_limit_by_max_rows_only(more, limit, total) ==
    ~IsNone(limit) /\ total >= limit.int

\* not has_more or (max_rows is not None and total_fetched >= max_rows)
reached_limit(more, limit, total) ==
    ~more \/ (~IsNone(limit) /\ total >= limit.int)

\* a variant of batch_result: total_fetched reports the rows of this batch alone
batch_result_own_total(text, rows, columns, number, total, more) ==
    [success |-> TRUE,
     batch |-> rows,
     batch_number |-> number,
     batch_size |-> RowCount(rows),
     total_fetched |-> RowCount(rows),
     has_more |-> more,
     fields |-> columns,
     query |-> text,
     executed_at |-> _get_current_timestamp]

batch_result(text, rows, columns, number, total, more) ==
    [success |-> TRUE,
     batch |-> rows,
     batch_number |-> number,
     batch_size |-> RowCount(rows),
     total_fetched |-> total,
     has_more |-> more,
     fields |-> columns,
     query |-> text,
     executed_at |-> _get_current_timestamp]

-----------------------------------------------------------------------------
(* GetTableStructureTool                                                   *)

columns_query == <<"S","E","L","E","C","T"," ",".",".","."," ","F","R","O","M"," ","v","_","c","a","t","a","l","o","g",".","c","o","l","u","m","n","s"," ","W","H","E","R","E"," ","t","a","b","l","e","_","s","c","h","e","m","a"," ","="," ","?"," ","A","N","D"," ","t","a","b","l","e","_","n","a","m","e"," ","="," ","?">>
table_query == <<"S","E","L","E","C","T"," ",".",".","."," ","F","R","O","M"," ","v","_","c","a","t","a","l","o","g",".","t","a","b","l","e","s"," ","W","H","E","R","E"," ","t","a","b","l","e","_","s","c","h","e","m","a"," ","="," ","?"," ","A","N","D"," ","t","a","b","l","e","_","n","a","m","e"," ","="," ","?">>

\* a variant of not_found: the table named before the schema
not_found_table_first(schema, table) ==
    ValueError("Table " \o ToStr(table) \o "." \o ToStr(schema) \o " not found")

\* f"Table {schema_name}.{table_name} not found"
not_found(schema, table) ==
    ValueError("Table " \o ToStr(schema) \o "." \o ToStr(table) \o " not found")

table_structure(schema, table, columns) ==
    [schema_name |-> schema,
     table_name |-> table,
     columns |-> columns,
     table_type |-> "STANDARD",
     owner |-> "dbadmin",
     column_count |-> RowCount(columns)]

GetTableStructureTool_format_result(structure, table, schema) ==
    [success |-> TRUE,
     table |-> table,
     schema |-> schema,
     structure |-> structure,
     executed_at |-> _get_current_timestamp]

-----------------------------------------------------------------------------
(* The inputs an invocation is given                                       *)

Restrict(f, keys) == [k \in keys |-> f[k]]

RequiredKeys == {"vertica_host", "vertica_database", "vertica_user"}

AllCredentials ==
    [vertica_host |-> <<"d","b",".","e","x","a","m","p","l","e">>,
     vertica_database |-> <<"a","n","a","l","y","t","i","c","s">>,
     vertica_user |-> <<"d","b","a","d","m","i","n">>,
     vertica_port |-> <<"5","4","3","3">>,
     vertica_readonly_mode |-> txtTrue]

\* the complete mapping, the mappings that lack one or all of the required keys,
\* and the complete mapping with a readonly flag or a port in several spellings
CredentialMaps ==
    {Restrict(AllCredentials, RequiredKeys \ missing) :
        missing \in {{}, {"vertica_host"}, {"vertica_database"}, {"vertica_user"}, RequiredKeys}}
    \cup {Restrict(AllCredentials, RequiredKeys) @@ [vertica_readonly_mode |-> flag] :
        flag \in {<<"T","r","u","e">>, txtFalse, <<"n","o">>}}
    \cup {Restrict(AllCredentials, RequiredKeys) @@ [vertica_port |-> port] :
        port \in {<<"5","4","3","3">>, <<"a","b","c">>}}

\* statements: a leading verb in some letter case, then a tail
SqlVerbs == {kwSELECT,                                   \* "SELECT"
             <<"w","i","t","h">>,                        \* "with"
             <<"D","e","l","e","t","e">>}                \* "Delete"
SqlTails == {<<" ","1">>,    \* " 1": no pagination clause
             <<" ","a"," ","L","I","M","I","T"," ","5">>,    \* " a LIMIT 5": LIMIT between spaces
             <<" ","a"," ","l","i","m","i","t"," ">>,    \* " a limit ": LIMIT last, a space after it
             <<" ","a","\n","L","I","M","I","T"," ","5">>,    \* " a\nLIMIT 5": LIMIT after a newline
             <<" ","a","\t","O","f","f","s","e","t","\t","2">>,    \* " a\tOffset\t2": OFFSET between tabs
             <<" ","a"," ","o","f","f","s","e","t"," ","2"," ">>}    \* " a offset 2 ": OFFSET between spaces
SqlTexts ==
    {verb \o tail : verb \in SqlVerbs, tail \in SqlTails}
    \cup {<<>>, <<" "," ">>,                                  \* "", "  "
          <<" ","s","e","l","e","c","t"," ","1","\n">>}       \* " select 1\n"

\* statements of other commands, for executeQuery
CommandTexts ==
    {<<"d","r","o","p"," ","t","a","b","l","e"," ","x">>,     \* "drop table x"
     <<"V","A","C","U","U","M">>,                             \* "VACUUM"
     <<"S","E","L","E","C","T","E","D"," ","1">>}             \* "SELECTED 1"

ExecuteParameters ==
    {[sql |-> text] : text \in SqlTexts \cup CommandTexts} \cup {Restrict([sql |-> <<>>], {})}

BatchSizeValues ==
    {PyNum(n) : n \in (0..MaxBatchSize) \cup {1000, 20000}} \cup {PyStr(<<"a","b","c">>)}
MaxRowsValues ==
    {PyNum(n) : n \in (0..MaxMaxRows) \cup {1500}}

StreamParameters ==
    {Restrict([sql |-> text, batch_size |-> size, max_rows |-> limit], keys) :
        text \in SqlTexts, size \in BatchSizeValues, limit \in MaxRowsValues,
        keys \in {{"sql"}, {"sql", "batch_size"}, {"sql", "batch_size", "max_rows"}}}

TableNames == {<<"o","r","d","e","r","s">>, <<" ","m","i","s","s","i","n","g","_","t","a","b","l","e"," ">>, <<>>}
SchemaNames == {txtPublic, <<" ","s","t","o","r","e"," ">>}
StructureParameters ==
    {Restrict([table_name |-> table, schema_name |-> schema], keys) :
        table \in TableNames, schema \in SchemaNames,
        keys \in {{"table_name", "schema_name"}, {"table_name"}, {}}}

TableSizes == (0..MaxTableRows) \cup {2500}

-----------------------------------------------------------------------------
(* The state machine                                                       *)

NoMapping == Restrict([sql |-> <<>>], {})

Init ==
    /\ pc = "idle"
    /\ tool = "none"
    /\ tool_parameters = NoMapping
    /\ credentials = NoMapping
    /\ config = PyNone
    /\ sql = <<>>
    /\ table_name = <<>>
    /\ schema_name = <<>>
    /\ batch_size = 0
    /\ max_rows = PyNone
    /\ connection = None
    /\ connects = 0
    /\ connect_args = PyNone
    /\ closes = 0
    /\ executed = <<>>
    /\ offset = 0
    /\ batch_number = 0
    /\ total_fetched = 0
    /\ table_rows = 0
    /\ table_exists = FALSE
    /\ out = <<>>
    /\ raised = PyNone
    /\ failed_round = 0
    /\ propagated = PyNone

\* `yield message`
Yield(message) == out' = Append(out, message)

\* an exception e leaves the try block of _invoke: the except clause yields the
\* failure envelope and the generator ends; an exception the clause does not
\* catch reaches the caller
Except(e, envelope) ==
    /\ raised' = e
    /\ pc' = "done"
    /\ IF Catches(e)
       THEN Yield(create_json_message(envelope)) /\ propagated' = propagated
       ELSE out' = out /\ propagated' = e

\* the generator ends without an exception
Return == pc' = "done" /\ UNCHANGED <<raised, propagated>>

\* leaving the try/finally of the query method
Finally(how) ==
    /\ connection' = finally_close(connection, how).connection
    /\ closes' = closes + finally_close(connection, how).closes

database == <<table_rows, table_exists>>
stream_state == <<offset, batch_number, total_fetched>>
session == <<connection, connects, connect_args, closes, executed>>

\* ExecuteQueryTool._invoke up to the call of _execute_query
InvokeExecute(creds, params) ==
    /\ pc = "idle"
    /\ tool' = "execute"
    /\ tool_parameters' = params
    /\ credentials' = creds
    /\ LET cfg == ExecuteQueryTool_build_config(creds)
           text == Strip(Get(params, "sql", <<>>))
       IN  IF Raises(cfg)
           THEN /\ Except(cfg.exc, error_result(cfg.exc, params))
                /\ UNCHANGED <<config, sql>>
           ELSE /\ config' = cfg.val
                /\ sql' = text
                /\ IF text = <<>>
                   THEN Yield(create_text_message(SqlRequiredText)) /\ Return
                   ELSE LET rejected == _validate_readonly_query(text, cfg.val)
                        IN  IF ~IsNone(rejected)
                            THEN Except(rejected, error_result(rejected, params))
                            ELSE pc' = "connect" /\ UNCHANGED <<out, raised, propagated>>
    /\ UNCHANGED <<table_name, schema_name, batch_size, max_rows, session,
                   stream_state, database, failed_round>>

\* StreamQueryTool._invoke up to the call of _stream_query
InvokeStream(creds, params) ==
    /\ pc = "idle"
    /\ tool' = "stream"
    /\ tool_parameters' = params
    /\ credentials' = creds
    /\ LET cfg == StreamQueryTool_build_config(creds)
           text == Strip(Get(params, "sql", <<>>))
           size == clamp_batch_size(params)
           limit == clamp_max_rows(params)
       IN  IF Raises(cfg)
           THEN /\ Except(cfg.exc, error_result(cfg.exc, params))
                /\ UNCHANGED <<config, sql, batch_size, max_rows>>
           ELSE IF Raises(size)
           THEN /\ Except(size.exc, error_result(size.exc, params))
                /\ config' = cfg.val
                /\ sql' = text
                /\ UNCHANGED <<batch_size, max_rows>>
           ELSE IF Raises(limit)
           THEN /\ Except(limit.exc, error_result(limit.exc, params))
                /\ config' = cfg.val
                /\ sql' = text
                /\ batch_size' = size.val
                /\ UNCHANGED max_rows
           ELSE /\ config' = cfg.val
                /\ sql' = text
                /\ batch_size' = size.val
                /\ max_rows' = limit.val
                /\ IF text = <<>>
                   THEN Yield(create_text_message(SqlRequiredText)) /\ Return
                   ELSE LET rejected == _validate_query(text)
                        IN  IF ~IsNone(rejected)
                            THEN Except(rejected, error_result(rejected, params))
                            ELSE pc' = "connect" /\ UNCHANGED <<out, raised, propagated>>
    /\ UNCHANGED <<table_name, schema_name, session, stream_state, database, failed_round>>

\* GetTableStructureTool._invoke up to the call of _get_table_structure
InvokeStructure(creds, params) ==
    /\ pc = "idle"
    /\ tool' = "structure"
    /\ tool_parameters' = params
    /\ credentials' = creds
    /\ LET cfg == GetTableStructureTool_build_config(creds)
           table == Strip(Get(params, "table_name", <<>>))
           schema == Strip(Get(params, "schema_name", txtPublic))
       IN  IF Raises(cfg)
           THEN /\ Except(cfg.exc, structure_error_result(cfg.exc, params))
                /\ UNCHANGED <<config, table_name, schema_name>>
           ELSE /\ config' = cfg.val
                /\ table_name' = table
                /\ schema_name' = schema
                /\ IF table = <<>>
                   THEN Yield(create_text_message(TableRequiredText)) /\ Return
                   ELSE pc' = "connect" /\ UNCHANGED <<out, raised, propagated>>
    /\ UNCHANGED <<sql, batch_size, max_rows, session, stream_state, database, failed_round>>

\* the failure envelope of the tool that is running
ErrorEnvelope(e) ==
    IF tool = "structure" THEN structure_error_result(e, tool_parameters)
    ELSE error_result(e, tool_parameters)

\* vertica_python.connect(**conn_params) returns a connection; the database is
\* in some state: the statement denotes table_rows rows, the catalog has the
\* table or not
ConnectOk ==
    /\ pc = "connect"
    /\ connects' = connects + 1
    /\ connect_args' = conn_params(config)
    /\ connection' = "open"
    /\ table_rows' \in TableSizes
    /\ table_exists' \in (IF tool = "structure" THEN BOOLEAN ELSE {FALSE})
    /\ pc' = IF tool = "stream" THEN "fetching" ELSE "run"
    /\ offset' = 0
    /\ batch_number' = 0
    /\ total_fetched' = 0
    /\ UNCHANGED <<tool, tool_parameters, credentials, config, sql, table_name,
                   schema_name, batch_size, max_rows, closes, executed, out,
                   raised, failed_round, propagated>>

\* vertica_python.connect raises: `connection` is still None in the finally
ConnectFail ==
    /\ pc = "connect"
    /\ connects' = connects + 1
    /\ connect_args' = conn_params(config)
    /\ \E e \in ConnectErrors :
          /\ Finally("raise")
          /\ Except(e, ErrorEnvelope(e))
    /\ UNCHANGED <<tool, tool_parameters, credentials, config, sql, table_name,
                   schema_name, batch_size, max_rows, executed, stream_state,
                   database, failed_round>>

\* ExecuteQueryTool._execute_query after connect, the statement succeeding, then
\* _format_result and the yield of the success envelope
ExecuteQueryOk ==
    /\ pc = "run" /\ tool = "execute"
    /\ executed' = Append(executed, sql)
    /\ LET rows == DbRows(sql, table_rows)
           result == query_result(sql, rows, DbColumns)
       IN  Yield(create_json_message(ExecuteQueryTool_format_result(result, sql)))
    /\ Finally("return")
    /\ Return
    /\ UNCHANGED <<tool, tool_parameters, credentials, config, sql, table_name,
                   schema_name, batch_size, max_rows, connects, connect_args,
                   stream_state, database, failed_round>>

\* cursor.execute or cursor.fetchall raises
ExecuteQueryFail ==
    /\ pc = "run" /\ tool = "execute"
    /\ executed' = Append(executed, sql)
    /\ Finally("raise")
    /\ \E e \in QueryErrors : Except(e, ErrorEnvelope(e))
    /\ UNCHANGED <<tool, tool_parameters, credentials, config, sql, table_name,
                   schema_name, batch_size, max_rows, connects, connect_args,
                   stream_state, database, failed_round>>

\* a variant of StreamRound: a connection is made for every round
StreamRound_reconnecting ==
    /\ pc = "fetching" /\ tool = "stream"
    /\ batch_number < MaxBatches
    /\ connects' = connects + 1
    /\ LET stmt == limited_sql(sql, batch_size, offset)
           rows == DbRows(stmt, table_rows)
           number == batch_number + 1
           total == total_fetched + RowCount(rows)
           more == has_more(RowCount(rows), batch_size, max_rows, total)
       IN  /\ executed' = Append(executed, stmt)
           /\ IF RowCount(rows) = 0
              THEN /\ Finally("return")
                   /\ Return
                   /\ UNCHANGED <<out, stream_state>>
              ELSE /\ batch_number' = number
                   /\ total_fetched' = total
                   /\ Yield(create_json_message(
                          batch_result(sql, rows, DbColumns, number, total, more)))
                   /\ IF reached_limit(more, max_rows, total)
                      THEN /\ Finally("return")
                           /\ Return
                           /\ UNCHANGED offset
                      ELSE /\ offset' = offset + batch_size
                           /\ UNCHANGED <<pc, connection, closes, raised, propagated>>
    /\ UNCHANGED <<tool, tool_parameters, credentials, config, sql, table_name,
                   schema_name, batch_size, max_rows, connect_args,
                   database, failed_round>>

\* one round of the loop of StreamQueryTool._stream_query whose statement
\* succeeds: no rows end the stream; rows are yielded as one batch, after which
\* the loop ends or moves the offset on
StreamRound ==
    /\ pc = "fetching" /\ tool = "stream"
    /\ batch_number < MaxBatches
    /\ LET stmt == limited_sql(sql, batch_size, offset)
           rows == DbRows(stmt, table_rows)
           number == batch_number + 1
           total == total_fetched + RowCount(rows)
           more == has_more(RowCount(rows), batch_size, max_rows, total)
       IN  /\ executed' = Append(executed, stmt)
           /\ IF RowCount(rows) = 0
              THEN /\ Finally("return")
                   /\ Return
                   /\ UNCHANGED <<out, stream_state>>
              ELSE /\ batch_number' = number
                   /\ total_fetched' = total
                   /\ Yield(create_json_message(
                          batch_result(sql, rows, DbColumns, number, total, more)))
                   /\ IF reached_limit(more, max_rows, total)
                      THEN /\ Finally("return")
                           /\ Return
                           /\ UNCHANGED offset
                      ELSE /\ offset' = offset + batch_size
                           /\ UNCHANGED <<pc, connection, closes, raised, propagated>>
    /\ UNCHANGED <<tool, tool_parameters, credentials, config, sql, table_name,
                   schema_name, batch_size, max_rows, connects, connect_args,
                   database, failed_round>>

\* a variant of StreamRoundFail: the rows read before the failure are yielded as
\* a batch, then the failure envelope
StreamRoundFail_partial ==
    /\ pc = "fetching" /\ tool = "stream"
    /\ batch_number < MaxBatches
    /\ executed' = Append(executed, limited_sql(sql, batch_size, offset))
    /\ failed_round' = batch_number + 1
    /\ Finally("raise")
    /\ pc' = "done"
    /\ propagated' = propagated
    /\ \E e \in QueryErrors :
          /\ raised' = e
          /\ out' = out \o <<create_json_message(
                                 batch_result(sql, [first |-> offset + 1, count |-> 1], DbColumns,
                                              batch_number + 1, total_fetched + 1, FALSE)),
                             create_json_message(ErrorEnvelope(e))>>
    /\ UNCHANGED <<tool, tool_parameters, credentials, config, sql, table_name,
                   schema_name, batch_size, max_rows, connects, connect_args,
                   stream_state, database>>

\* one round whose cursor.execute or cursor.fetchall raises
StreamRoundFail ==
    /\ pc = "fetching" /\ tool = "stream"
    /\ batch_number < MaxBatches
    /\ executed' = Append(executed, limited_sql(sql, batch_size, offset))
    /\ failed_round' = batch_number + 1
    /\ Finally("raise")
    /\ \E e \in QueryErrors : Except(e, ErrorEnvelope(e))
    /\ UNCHANGED <<tool, tool_parameters, credentials, config, sql, table_name,
                   schema_name, batch_size, max_rows, connects, connect_args,
                   stream_state, database>>

\* GetTableStructureTool._get_table_structure after connect: both catalog
\* queries succeed and the table is in the catalog
StructureOk ==
    /\ pc = "run" /\ tool = "structure"
    /\ table_exists
    /\ executed' = executed \o <<columns_query, table_query>>
    /\ LET columns == DbRows(columns_query, table_rows)
           structure == table_structure(schema_name, table_name, columns)
       IN  Yield(create_json_message(
               GetTableStructureTool_format_result(structure, table_name, schema_name)))
    /\ Finally("return")
    /\ Return
    /\ UNCHANGED <<tool, tool_parameters, credentials, config, sql, table_name,
                   schema_name, batch_size, max_rows, connects, connect_args,
                   stream_state, database, failed_round>>

\* both catalog queries succeed and the table query returns no row
StructureNotFound ==
    /\ pc = "run" /\ tool = "structure"
    /\ ~table_exists
    /\ executed' = executed \o <<columns_query, table_query>>
    /\ Finally("raise")
    /\ Except(not_found(schema_name, table_name),
              ErrorEnvelope(not_found(schema_name, table_name)))
    /\ UNCHANGED <<tool, tool_parameters, credentials, config, sql, table_name,
                   schema_name, batch_size, max_rows, connects, connect_args,
                   stream_state, database, failed_round>>

\* the first or the second catalog query raises
StructureFail ==
    /\ pc = "run" /\ tool = "structure"
    /\ \E sent \in {<<columns_query>>, <<columns_query, table_query>>} :
          executed' = executed \o sent
    /\ Finally("raise")
    /\ \E e \in QueryErrors : Except(e, ErrorEnvelope(e))
    /\ UNCHANGED <<tool, tool_parameters, credentials, config, sql, table_name,
                   schema_name, batch_size, max_rows, connects, connect_args,
                   stream_state, database, failed_round>>

\* the caller invokes one of the tools with some credentials and parameters
Invoke ==
    /\ pc = "idle"
    /\ \E creds \in CredentialMaps :
          \/ \E params \in ExecuteParameters : InvokeExecute(creds, params)
          \/ \E params \in StreamParameters : InvokeStream(creds, params)
          \/ \E params \in StructureParameters : InvokeStructure(creds, params)

Next ==
    \/ Invoke
    \/ ConnectOk
    \/ ConnectFail
    \/ ExecuteQueryOk
    \/ ExecuteQueryFail
    \/ StreamRound
    \/ StreamRoundFail
    \/ StructureOk
    \/ StructureNotFound
    \/ StructureFail

Spec == Init /\ [][Next]_vars

\* The generator is advanced for as long as the caller iterates over it, and a
\* call of the driver returns or raises: a step of a running invocation that
\* stays possible is eventually taken.  Nothing obliges a caller to invoke.
Fairness ==
    /\ WF_vars(ConnectFail \/ ConnectOk)
    /\ WF_vars(ExecuteQueryFail \/ ExecuteQueryOk)
    /\ WF_vars(StreamRoundFail \/ StreamRound)
    /\ WF_vars(StructureFail \/ StructureNotFound \/ StructureOk)

LiveSpec == Init /\ [][Next]_vars /\ Fairness

-----------------------------------------------------------------------------
(* Vocabulary of the properties                                            *)

IsBatch(m) == m.type = "json" /\ m.json.success
IsFailure(m) == m.type = "json" /\ ~m.json.success

\* the batch records yielded so far, in order
Batches == SelectSeq(out, IsBatch)
BatchSizes == [i \in 1..Len(Batches) |-> Batches[i].json.batch_size]
HasMores == [i \in 1..Len(Batches) |-> Batches[i].json.has_more]
Failures == {i \in 1..Len(out) : IsFailure(out[i])}

\* the failure envelope the interface describes for failure e
FailureEnvelope(e) ==
    [type |-> "json",
     json |-> [success |-> FALSE,
               error |-> e.msg,
               query |-> IF "sql" \in DOMAIN tool_parameters THEN tool_parameters["sql"] ELSE <<>>,
               executed_at |-> _get_current_timestamp]]

\* the text starts with one of SELECT, SHOW, DESCRIBE, EXPLAIN, WITH once trimmed
\* and uppercased
LeadsReadonly(text) ==
    \E kw \in {kwSELECT, kwSHOW, kwDESCRIBE, kwEXPLAIN, kwWITH} :
        LET u == Upper(Strip(text))
        IN  Len(u) >= Len(kw) /\ \A i \in 1..Len(kw) : u[i] = kw[i]

\* readonly mode is active for the credentials given: the flag is absent or
\* spells "true" in some letter case
ReadonlyActive ==
    \/ "vertica_readonly_mode" \notin DOMAIN credentials
    \/ Upper(credentials["vertica_readonly_mode"]) = <<"T","R","U","E">>

\* the text holds " LIMIT " or " OFFSET " in some letter case
HasPaginationText(text) ==
    \E kw \in {kwLIMIT, kwOFFSET} :
        \E i \in 1..Len(text) :
            /\ i + Len(kw) + 1 <= Len(text)
            /\ text[i] = " "
            /\ \A j \in 1..Len(kw) : UpperChar(text[i + j]) = kw[j]
            /\ text[i + Len(kw) + 1] = " "

\* how often kw occurs in the text as a whitespace-delimited word, in any case
WordCount(text, kw) ==
    Cardinality({i \in 1..Len(Tokens(text)) : Upper(Tokens(text)[i]) = kw})

RawSql == IF "sql" \in DOMAIN tool_parameters THEN tool_parameters["sql"] ELSE <<>>

-----------------------------------------------------------------------------
(* C1: with max_rows set, streamQuery stops at the row limit: no emitted   *)
(* batch has a total_fetched above max_rows; a 2500-row table read with    *)
(* batch_size 1000 and max_rows 1500 gives batches [1000, 500], the second *)
(* with has_more = false.                                                  *)
C1_RowLimitCutsLastBatch ==
    (tool = "stream" /\ ~IsNone(max_rows)) =>
        /\ \A i \in 1..Len(Batches) : Batches[i].json.total_fetched <= max_rows.int
        /\ (pc = "done" /\ IsNone(raised) /\ connects = 1 /\ table_rows = 2500
              /\ batch_size = 1000 /\ max_rows.int = 1500)
           => (BatchSizes = <<1000, 500>> /\ HasMores = <<TRUE, FALSE>>)

-----------------------------------------------------------------------------
(* C2: with max_rows unset, a stream over an unchanging table of N rows    *)
(* with batch size B emits ceil(N/B) batches in offset order, each of B    *)
(* rows but the last, which has the rest; no row is skipped or repeated    *)
(* and the final total_fetched is N.  For N = 2500 and B = 1000 the sizes  *)
(* are [1000, 1000, 500] and has_more is [true, true, false].              *)
C2_StreamDeliversWholeTable ==
    (tool = "stream" /\ IsNone(max_rows)) =>
        /\ \A i \in 1..Len(Batches) :
              /\ Batches[i].json.batch_number = i
              /\ Batches[i].json.batch.first = (i - 1) * batch_size + 1
              /\ Batches[i].json.batch.count = Batches[i].json.batch_size
              /\ Batches[i].json.total_fetched = Min(i * batch_size, table_rows)
        /\ \A i \in 1..Len(executed) :
              /\ DbPage(executed[i]).limit = batch_size
              /\ DbPage(executed[i]).offset = (i - 1) * batch_size
        /\ (pc = "done" /\ IsNone(raised) /\ connects = 1) =>
              /\ Len(Batches) = (table_rows + batch_size - 1) \div batch_size
              /\ \A i \in 1..Len(Batches) :
                    BatchSizes[i] = IF i < Len(Batches) THEN batch_size
                                    ELSE table_rows - (i - 1) * batch_size
              /\ total_fetched = table_rows
              /\ (table_rows = 2500 /\ batch_size = 1000) =>
                    /\ BatchSizes = <<1000, 1000, 500>>
                    /\ HasMores = <<TRUE, TRUE, FALSE>>
                    /\ Batches[3].json.total_fetched = 2500

C2_Witness ==
    /\ tool = "stream" /\ pc = "done" /\ IsNone(max_rows) /\ IsNone(raised)
    /\ table_rows = 2500 /\ batch_size = 1000
    /\ Len(Batches) = 3

-----------------------------------------------------------------------------
(* C3: on every path of an operation that has opened a connection (normal  *)
(* return, rejection after connect, error in execute or fetch, a stream's  *)
(* exhaustion, row limit or error abort) close is called exactly once: the *)
(* operation never ends with the connection open, and never closes twice.  *)
C3_ClosedExactlyOnce ==
    /\ closes <= 1
    /\ connection = "open" => (closes = 0 /\ pc \in {"run", "fetching"})
    /\ connection = "closed" => closes = 1
    /\ (pc = "done" /\ connection # None) => (connection = "closed" /\ closes = 1)
    /\ (pc = "done" /\ connects = 1 /\ executed # <<>>) => closes = 1

C3_Witness ==
    /\ pc = "done" /\ tool = "stream" /\ failed_round = 2
    /\ connection = "closed" /\ closes = 1

-----------------------------------------------------------------------------
(* C4: executeQuery with readonly = true rejects, with the policy          *)
(* violation, every statement that does not start with SELECT, SHOW,       *)
(* DESCRIBE, EXPLAIN or WITH once trimmed and uppercased, and never        *)
(* executes it; with readonly = false the statement passes the guard and   *)
(* is executed once the connection is made.                                *)
C4_ReadonlyGuard ==
    (tool = "execute" /\ ~IsNone(config) /\ Strip(RawSql) # <<>> /\ ~LeadsReadonly(RawSql)) =>
        IF ReadonlyActive
        THEN /\ pc = "done"
             /\ connects = 0
             /\ executed = <<>>
             /\ out = <<FailureEnvelope(ValueError(ReadonlyMessage))>>
        ELSE /\ \A i \in 1..Len(out) : IsFailure(out[i]) => out[i].json.error # ReadonlyMessage
             /\ pc # "done" \/ connects = 1
             /\ (pc = "done" /\ connection # None) => executed = <<Strip(RawSql)>>

C4_Witness ==
    /\ tool = "execute" /\ pc = "done" /\ ReadonlyActive /\ ~LeadsReadonly(RawSql)
    /\ Len(out) = 1 /\ IsFailure(out[1]) /\ out[1].json.error = ReadonlyMessage

-----------------------------------------------------------------------------
(* C5: the readonly policy governs streaming too: with readonly mode       *)
(* active, a statement that does not start with SELECT, SHOW, DESCRIBE,    *)
(* EXPLAIN or WITH is rejected before a session is opened and no paginated *)
(* form of it reaches the database.  (A statement is sent on an open       *)
(* session only, so a statement sent is also a session opened.)            *)
C5_StreamHonoursReadonly ==
    (tool = "stream" /\ ReadonlyActive /\ ~LeadsReadonly(RawSql)) => executed = <<>>

-----------------------------------------------------------------------------
(* C6: every SQL text that holds " LIMIT " or " OFFSET " in any letter     *)
(* case is rejected by streamQuery before a connection is opened: no       *)
(* connect, no statement executed, one failure envelope.                   *)
C6_PaginationTextRejected ==
    (tool = "stream" /\ HasPaginationText(RawSql)) =>
        /\ connects = 0
        /\ executed = <<>>
        /\ pc = "done" => (Len(out) = 1 /\ IsFailure(out[1]))

\* What the guard does ensure: the same of every SQL text that still holds
\* " LIMIT " or " OFFSET " after strip(), the form _validate_query is given
TrimmedPaginationTextRejected ==
    (tool = "stream" /\ HasPaginationText(Strip(RawSql))) =>
        /\ pc = "done"
        /\ connects = 0
        /\ executed = <<>>
        /\ Len(out) = 1 /\ IsFailure(out[1])
        /\ ~IsNone(raised) /\ out[1] = FailureEnvelope(raised)

-----------------------------------------------------------------------------
(* C7: streamQuery never composes its pagination with the caller's: a      *)
(* statement with LIMIT or OFFSET as a whitespace-delimited word is        *)
(* rejected, so every statement sent to the database has exactly one LIMIT *)
(* and one OFFSET, both injected by the paginator.                         *)
C7_OnePaginationClause ==
    tool = "stream" =>
        /\ (WordCount(RawSql, kwLIMIT) + WordCount(RawSql, kwOFFSET) > 0) => executed = <<>>
        /\ \A i \in 1..Len(executed) :
              WordCount(executed[i], kwLIMIT) = 1 /\ WordCount(executed[i], kwOFFSET) = 1

-----------------------------------------------------------------------------
(* C8: a credential mapping without vertica_host, vertica_database or      *)
(* vertica_user fails configuration: the invocation ends at once with one  *)
(* failure envelope and no connection is attempted.                        *)
C8_IncompleteCredentialsFail ==
    (tool \in {"execute", "stream"} /\ ~(RequiredKeys \subseteq DOMAIN credentials)) =>
        /\ connects = 0
        /\ (pc = "done" /\ Strip(RawSql) # <<>>) => (Len(out) = 1 /\ IsFailure(out[1]))

-----------------------------------------------------------------------------
(* C9: every failure raised inside executeQuery or streamQuery is caught   *)
(* at the operation boundary and yields exactly one failure envelope, with *)
(* success = false, the failure's message, the query text and executed_at  *)
(* and no data or batch payload; nothing propagates to the caller.         *)
C9_FailuresBecomeEnvelopes ==
    /\ IsNone(propagated)
    /\ tool \in {"execute", "stream"} =>
          IF IsNone(raised)
          THEN Failures = {}
          ELSE /\ pc = "done"
               /\ Failures = {Len(out)}
               /\ out[Len(out)] = FailureEnvelope(raised)
               /\ DOMAIN out[Len(out)].json = {"success", "error", "query", "executed_at"}

C9_Witness ==
    /\ tool = "stream" /\ pc = "done" /\ ~IsNone(raised)
    /\ raised.type = "QueryError"
    /\ Len(out) = 2 /\ IsBatch(out[1]) /\ IsFailure(out[2])

-----------------------------------------------------------------------------
(* C10: when round k of a stream fails in execute or fetch, no batch of    *)
(* round k is emitted: the caller has the k-1 complete batches emitted     *)
(* before, then exactly one failure envelope, and nothing after it.        *)
C10_FailedRoundEmitsNoBatch ==
    (tool = "stream" /\ failed_round > 0) =>
        /\ pc = "done"
        /\ Len(out) = failed_round
        /\ \A i \in 1..(failed_round - 1) :
              /\ IsBatch(out[i])
              /\ out[i].json.batch_number = i
              /\ out[i].json.batch_size = batch_size
        /\ out[failed_round] = FailureEnvelope(raised)
        /\ Len(executed) = failed_round

C10_Witness ==
    /\ tool = "stream" /\ pc = "done" /\ failed_round = 3
    /\ Len(out) = 3 /\ IsBatch(out[2]) /\ IsFailure(out[3])

-----------------------------------------------------------------------------
(* C11: an invocation of streamQuery or executeQuery calls connect at most *)
(* once, and only while it holds no connection; every statement, of every  *)
(* round of a stream, is executed while that one connection is open, never *)
(* after its close; the connection is the invocation's own: it starts      *)
(* without one and the one it opens is closed when it ends.                *)
C11_OneConnectionPerInvocation ==
    /\ [](tool \in {"execute", "stream"} =>
            /\ connects <= 1
            /\ connection # None => connects = 1
            /\ executed # <<>> => connects = 1
            /\ pc \in {"idle", "connect"} => connection = None
            /\ pc = "done" => connection # "open")
    /\ [][/\ executed' # executed => (connection = "open" /\ connects' = connects)
          /\ connects' # connects => (connects = 0 /\ connection = None)
          /\ connection' = "open" => (connection = "open" \/ connects' = connects + 1)]_vars

C11_Witness ==
    /\ tool = "stream" /\ pc = "fetching" /\ connection = "open"
    /\ connects = 1 /\ Len(executed) = 3 /\ Len(Batches) = 3

-----------------------------------------------------------------------------
(* C12: a stream is finite: over an unchanging result set of N rows, with  *)
(* any batch size B in 1..10000, with or without max_rows, the paginator   *)
(* executes at most floor(N/B) + 1 paginated statements, reaches its end,  *)
(* and has then closed the session.  (The model follows a stream for       *)
(* MaxBatches rounds, so the progress part speaks of the streams that need *)
(* no more than that.)                                                     *)
C12_StreamTerminates ==
    /\ [](tool = "stream" =>
            /\ batch_size \in 1..10000 \/ pc = "done"
            /\ pc \in {"fetching", "done"} /\ connection # None =>
                  Len(executed) <= (table_rows \div batch_size) + 1
            /\ pc = "done" => connection # "open")
    /\ (tool = "stream" /\ pc = "fetching"
          /\ (table_rows \div batch_size) + 1 <= MaxBatches)
       ~> (pc = "done" /\ connection = "closed" /\ closes = 1)

C12_Witness ==
    /\ tool = "stream" /\ pc = "done" /\ IsNone(raised) /\ IsNone(max_rows)
    /\ table_rows = 4 /\ batch_size = 2
    /\ Len(executed) = 3 /\ Len(Batches) = 2
    /\ connection = "closed"

-----------------------------------------------------------------------------
(* C13: the command verb a successful executeQuery reports is the leading  *)
(* keyword of the statement, trimmed and uppercased, when that word is one *)
(* of SELECT, INSERT, UPDATE, DELETE, CREATE, DROP, ALTER, SHOW, DESCRIBE, *)
(* EXPLAIN, and UNKNOWN for every other leading word; the classification   *)
(* never fails.  "SELECT 1" gives SELECT, "drop table x" gives DROP,       *)
(* "VACUUM" gives UNKNOWN.                                                 *)
CommandVerbs == {"SELECT", "INSERT", "UPDATE", "DELETE", "CREATE", "DROP", "ALTER",
                 "SHOW", "DESCRIBE", "EXPLAIN"}

\* the first whitespace-delimited word of the text, uppercased
LeadingWord(text) == IF Tokens(text) = <<>> THEN "" ELSE ToStr(Upper(Tokens(text)[1]))

LeadingVerb(text) ==
    IF LeadingWord(text) \in CommandVerbs THEN LeadingWord(text) ELSE "UNKNOWN"

C13_CommandIsLeadingKeyword ==
    (tool = "execute" /\ pc = "done" /\ IsNone(raised) /\ connects = 1) =>
        /\ Len(out) = 1 /\ IsBatch(out[1])
        /\ out[1].json.command = LeadingVerb(RawSql)

-----------------------------------------------------------------------------
(* C14: getTableStructure for a schema and table that have no row in the   *)
(* table catalog yields, when the catalog queries themselves succeed,      *)
(* exactly one failure envelope with success = false and the error         *)
(* "Table <schema>.<table> not found", for ("missing_table", "public")     *)
(* "Table public.missing_table not found"; it never yields a success       *)
(* envelope, with an empty structure or otherwise.                         *)
RequestedTable ==
    Strip(IF "table_name" \in DOMAIN tool_parameters THEN tool_parameters["table_name"]
          ELSE <<>>)
RequestedSchema ==
    Strip(IF "schema_name" \in DOMAIN tool_parameters THEN tool_parameters["schema_name"]
          ELSE <<"p","u","b","l","i","c">>)

C14_MissingTableNotFound ==
    (tool = "structure" /\ connection # None /\ ~table_exists) =>
        /\ \A i \in 1..Len(out) : out[i].type = "json" /\ ~out[i].json.success
        /\ (pc = "done" /\ (IsNone(raised) \/ raised.type = "ValueError")) =>
              /\ Len(out) = 1
              /\ out[1].json.success = FALSE
              /\ out[1].json.error =
                    "Table " \o ToStr(RequestedSchema) \o "." \o ToStr(RequestedTable)
                             \o " not found"
              /\ (ToStr(RequestedTable) = "missing_table" /\ ToStr(RequestedSchema) = "public")
                    => out[1].json.error = "Table public.missing_table not found"

C14_Witness ==
    /\ tool = "structure" /\ pc = "done" /\ ~table_exists /\ connection = "closed"
    /\ ToStr(RequestedTable) = "missing_table" /\ ToStr(RequestedSchema) = "public"
    /\ Len(out) = 1 /\ out[1].json.error = "Table public.missing_table not found"

-----------------------------------------------------------------------------
(* C15: the bookkeeping of a stream is consistent in every state: the      *)
(* batches emitted are numbered 1, 2, 3, ... without gap or repeat; each   *)
(* batch's total_fetched is the sum of the row counts of the batches       *)
(* emitted up to it; the statement of round k has OFFSET (k-1)*batch_size; *)
(* offset moves, by batch_size, only when the loop goes on, so that every  *)
(* round starts with offset = total_fetched = batch_number * batch_size.   *)
RECURSIVE RowsEmitted(_)
RowsEmitted(i) == IF i = 0 THEN 0 ELSE RowsEmitted(i - 1) + Batches[i].json.batch_size

C15_StreamStateConsistent ==
    /\ [](tool = "stream" =>
            /\ Len(Batches) = batch_number
            /\ \A i \in 1..Len(Batches) :
                  /\ Batches[i].json.batch_number = i
                  /\ Batches[i].json.total_fetched = RowsEmitted(i)
            /\ total_fetched = RowsEmitted(batch_number)
            /\ \A k \in 1..Len(executed) :
                  /\ DbPage(executed[k]).paged
                  /\ DbPage(executed[k]).offset = (k - 1) * batch_size
            /\ pc = "fetching" =>
                  /\ offset = total_fetched
                  /\ total_fetched = batch_number * batch_size
                  /\ Len(executed) = batch_number)
    /\ [][(tool = "stream" /\ offset' # offset) =>
             /\ pc = "fetching" /\ pc' = "fetching"
             /\ offset' = offset + batch_size
             /\ batch_number' = batch_number + 1]_vars

C15_Witness ==
    /\ tool = "stream" /\ pc = "fetching" /\ batch_size = 2
    /\ batch_number = 2 /\ offset = 4 /\ total_fetched = 4
    /\ Len(executed) = 2 /\ Len(Batches) = 2

-----------------------------------------------------------------------------
(* C16: has_more tells the truth: in a stream that ends without an error,  *)
(* every batch emitted with has_more = true is followed by another batch,  *)
(* so the last batch emitted has has_more = false, whatever the size of    *)
(* the table, a multiple of batch_size included.                           *)
C16_HasMoreIsTruthful ==
    (tool = "stream" /\ pc = "done" /\ IsNone(raised)) =>
        \A i \in 1..Len(Batches) : Batches[i].json.has_more <=> i < Len(Batches)

-----------------------------------------------------------------------------
(* C17: an invocation of executeQuery or streamQuery that has run to its   *)
(* end has given the caller at least one message: a success envelope or a  *)
(* batch, a failure envelope, or the empty-SQL text; also when the         *)
(* statement returns no rows.                                              *)
C17_CompletedInvocationReports ==
    (tool \in {"execute", "stream"} /\ pc = "done") => Len(out) >= 1

====
